---- MODULE Spec2Model ----
(***************************************************************************)
(* Model of chess_rs: the packed square encoding with its off-board        *)
(* sentinel (position.rs), the directional ray (Position::stream), the     *)
(* board's piece list (board.rs) and the six move rules (piece.rs).        *)
(***************************************************************************)
EXTENDS Integers, Sequences, FiniteSets, TLC

VARIABLES
    position,        \* PosSpec: the Position value last produced
    last,            \* PosSpec: the operation that produced it, with its operands
    xy,              \* PosSpec: what to_xy() returned for it, once asked
    overflow,        \* PosSpec: some u8 operation of new or of a step has overflowed
    start,           \* RaySpec: the Position stream() was called on
    direction,       \* RaySpec: the MoveDirection captured by the closure
    position_state,  \* RaySpec: the closure's cursor
    yielded,         \* RaySpec: the Positions the iterator has returned, in order
    exhausted,       \* RaySpec: the iterator has returned None
    other,           \* TwoRaySpec: a second iterator made from the same start and direction
    board,           \* Spec: Board.pieces, a sequence of pieces
    piece,           \* Spec: the piece moves() was last called on
    moves,           \* Spec: the HashSet that call returned
    first,           \* FrameSpec: the first moves() call: its piece, result and board
    calls            \* FrameSpec: the number of moves() calls made so far

vars == <<position, last, xy, overflow, start, direction, position_state, yielded, exhausted,
          other, board, piece, moves, first, calls>>

posVars == <<position, last, xy, overflow>>
rayVars == <<start, direction, position_state, yielded, exhausted, other>>
boardVars == <<board, piece, moves, first, calls>>

(***************************************************************************)
(* Bounds of the model.                                                    *)
(***************************************************************************)
MaxCoord == 9       \* Position::new is tried on x, y in 0..MaxCoord and on U8Max
MaxPieces == 2      \* longest piece list handed to Board::new
MaxCalls == 3       \* most moves() calls made on one board

(***************************************************************************)
(* position.rs                                                             *)
(***************************************************************************)
U8Max == 255
BoardSide == 8
MaxRepr == 63

U8 == 0..U8Max

\* u8 addition and multiplication as the release build computes them
U8Add(a, b) == (a + b) % (U8Max + 1)
U8Mul(a, b) == (a * b) % (U8Max + 1)

\* enum Repr
OffBoard == <<"OffBoard">>
OnBoard(repr) == <<"OnBoard", repr>>

IsOffBoard(p) == p[1] = "OffBoard"
ReprOf(p) == p[2]

\* enum XY
XYOffBoard == <<"XY::OffBoard">>
XYOnBoard(x, y) == <<"XY::OnBoard", x, y>>

\* Position::off_board
off_board == OffBoard

\* Position::is_on_board
is_on_board(p) == p[1] = "OnBoard"

\* faulty variant of Position::new: the coordinates are packed without the range check
new_NoRangeCheck(x, y) == OnBoard(U8Add(U8Mul(y, BoardSide), x))

\* faulty variant of Position::new: the row and the column exchanged in the packing
new_Transposed(x, y) ==
    IF x > 7 \/ y > 7
    THEN OffBoard
    ELSE OnBoard(U8Add(U8Mul(x, BoardSide), y))

\* Position::new
new(x, y) ==
    IF x > 7 \/ y > 7
    THEN OffBoard
    ELSE OnBoard(U8Add(U8Mul(y, BoardSide), x))

\* Position::to_xy
to_xy(p) ==
    IF IsOffBoard(p)
    THEN XYOffBoard
    ELSE XYOnBoard(ReprOf(p) % BoardSide, ReprOf(p) \div BoardSide)

\* faulty variant of crosses_row_boundary: rows taken to be twice as wide
crosses_row_boundary_WideRows(previous, next) ==
    (previous \div (2 * BoardSide)) # (next \div (2 * BoardSide))

\* crosses_row_boundary
crosses_row_boundary(previous, next) ==
    (previous \div BoardSide) # (next \div BoardSide)

\* Position::new: y * 8 or y * 8 + x leaves the u8 range
new_overflows(x, y) ==
    /\ ~(x > 7 \/ y > 7)
    /\ (y * BoardSide > U8Max \/ y * BoardSide + x > U8Max)

\* Position::up: repr + 8 leaves the u8 range
up_overflows(p) == is_on_board(p) /\ ReprOf(p) + BoardSide > U8Max

\* Position::right: repr + 1 leaves the u8 range
right_overflows(p) == is_on_board(p) /\ ReprOf(p) + 1 > U8Max

\* Position::up
up(p) ==
    IF IsOffBoard(p) THEN p
    ELSE IF U8Add(ReprOf(p), BoardSide) > MaxRepr
         THEN off_board
         ELSE OnBoard(U8Add(ReprOf(p), BoardSide))

\* faulty variant of Position::down: the sentinel is stepped like the index 64
down_FromSentinel(p) ==
    IF IsOffBoard(p) THEN OnBoard(MaxRepr + 1 - BoardSide)
    ELSE IF ReprOf(p) >= BoardSide
         THEN OnBoard(ReprOf(p) - BoardSide)
         ELSE off_board

\* Position::down  (checked_sub(8))
down(p) ==
    IF IsOffBoard(p) THEN p
    ELSE IF ReprOf(p) >= BoardSide
         THEN OnBoard(ReprOf(p) - BoardSide)
         ELSE off_board

\* faulty variant of Position::left: the linear decrement without the row check
left_NoRowCheck(p) ==
    IF IsOffBoard(p) THEN p
    ELSE IF ReprOf(p) >= 1
         THEN OnBoard(ReprOf(p) - 1)
         ELSE off_board

\* Position::left  (checked_sub(1), then the row check)
left(p) ==
    IF IsOffBoard(p) THEN p
    ELSE IF ReprOf(p) >= 1
         THEN IF crosses_row_boundary(ReprOf(p), ReprOf(p) - 1)
              THEN off_board
              ELSE OnBoard(ReprOf(p) - 1)
         ELSE off_board

\* faulty variant of Position::right: the linear increment without the row check
right_NoRowCheck(p) ==
    IF IsOffBoard(p) THEN p
    ELSE IF U8Add(ReprOf(p), 1) > MaxRepr
         THEN off_board
         ELSE OnBoard(U8Add(ReprOf(p), 1))

\* Position::right
right(p) ==
    IF IsOffBoard(p) THEN p
    ELSE IF crosses_row_boundary(ReprOf(p), U8Add(ReprOf(p), 1))
            \/ U8Add(ReprOf(p), 1) > MaxRepr
         THEN off_board
         ELSE OnBoard(U8Add(ReprOf(p), 1))

\* Position::up_right .. down_left: the vertical step, then the horizontal one
up_right(p) == right(up(p))
up_left(p) == left(up(p))
down_right(p) == right(down(p))
down_left(p) == left(down(p))

\* enum MoveDirection
MoveDirection ==
    {"Up", "Down", "Left", "Right", "UpRight", "UpLeft", "DownRight", "DownLeft"}

\* the match on MoveDirection shared by stream and compose
step(p, d) ==
    CASE d = "Up" -> up(p)
      [] d = "Down" -> down(p)
      [] d = "Left" -> left(p)
      [] d = "Right" -> right(p)
      [] d = "UpRight" -> up_right(p)
      [] d = "UpLeft" -> up_left(p)
      [] d = "DownRight" -> down_right(p)
      [] d = "DownLeft" -> down_left(p)

\* a u8 operation of the step of p in direction d overflows; down and left
\* subtract with checked_sub, which cannot
step_overflows(p, d) ==
    CASE d = "Up" -> up_overflows(p)
      [] d = "Down" -> FALSE
      [] d = "Left" -> FALSE
      [] d = "Right" -> right_overflows(p)
      [] d = "UpRight" -> up_overflows(p) \/ right_overflows(up(p))
      [] d = "UpLeft" -> up_overflows(p)
      [] d = "DownRight" -> right_overflows(down(p))
      [] d = "DownLeft" -> FALSE

\* Position::compose: the fold of the steps over the starting position
RECURSIVE compose(_, _)
compose(ds, starting_position) ==
    IF ds = <<>>
    THEN starting_position
    ELSE compose(Tail(ds), step(starting_position, Head(ds)))

\* the values a Position can hold
Squares == {OnBoard(r) : r \in 0..MaxRepr}
Positions == Squares \cup {OffBoard}


\* faulty variant of the closure: the cursor is returned before it is advanced
stream_next_YieldsStart(state, d) ==
    [position_state |-> step(state, d),
     item |-> IF is_on_board(state) THEN <<state>> ELSE <<>>]

\* the closure of Position::stream: advance the cursor, Some(cursor) iff on the board
stream_next(state, d) ==
    LET next_state == step(state, d)
    IN  [position_state |-> next_state,
         item |-> IF is_on_board(next_state) THEN <<next_state>> ELSE <<>>]

(***************************************************************************)
(* piece.rs and board.rs                                                   *)
(***************************************************************************)
Color == {"Black", "White"}
Kind == {"Pawn", "Knight", "Bishop", "Rook", "Queen", "King"}

\* Pawn::new .. King::new: a piece is its kind, colour and square
Piece(kind, color, pos) == [kind |-> kind, color |-> color, position |-> pos]

\* Board::empty
empty == <<>>

\* the orders in which HashMap::into_iter may hand out the entries of a map
IterationOrders(entries) ==
    {order \in [1..Cardinality(entries) -> entries] :
        {order[i] : i \in DOMAIN order} = entries}

\* Board::default, the pawns: eight per (color, y) entry, x = 0..7
PawnRow(entry) ==
    [i \in 1..BoardSide |-> Piece("Pawn", entry[1], new(i - 1, entry[2]))]

\* flat_map of PawnRow over the entries in iteration order
RECURSIVE pawns(_)
pawns(order) ==
    IF order = <<>> THEN <<>>
    ELSE PawnRow(Head(order)) \o pawns(Tail(order))

\* faulty variant of BackRow: queen and king on each other's column
BackRow_QueenAndKingSwapped(entry) ==
    LET color == entry[1]
        y == entry[2]
    IN  << Piece("Rook", color, new(0, y)),
           Piece("Rook", color, new(7, y)),
           Piece("Knight", color, new(1, y)),
           Piece("Knight", color, new(6, y)),
           Piece("Bishop", color, new(2, y)),
           Piece("Bishop", color, new(5, y)),
           Piece("Queen", color, new(4, y)),
           Piece("King", color, new(3, y)) >>

\* Board::default, the other pieces: the vec! built per (color, y) entry
BackRow(entry) ==
    LET color == entry[1]
        y == entry[2]
    IN  << Piece("Rook", color, new(0, y)),
           Piece("Rook", color, new(7, y)),
           Piece("Knight", color, new(1, y)),
           Piece("Knight", color, new(6, y)),
           Piece("Bishop", color, new(2, y)),
           Piece("Bishop", color, new(5, y)),
           Piece("Queen", color, new(3, y)),
           Piece("King", color, new(4, y)) >>

\* flat_map of BackRow over the entries in iteration order
RECURSIVE rest(_)
rest(order) ==
    IF order = <<>> THEN <<>>
    ELSE BackRow(Head(order)) \o rest(Tail(order))

PawnEntries == {<<"White", 1>>, <<"Black", 6>>}
RestEntries == {<<"White", 0>>, <<"Black", 7>>}

\* Board::default: pawns.chain(rest).collect()
Board_default(pawn_order, rest_order) == pawns(pawn_order) \o rest(rest_order)

\* faulty variant: only the first piece of the colour is found (find for filter)
same_color_piece_positions_FirstOnly(b, color) ==
    {b[i].position : i \in {j \in DOMAIN b :
        /\ b[j].color = color
        /\ \A k \in DOMAIN b : b[k].color = color => j <= k}}

\* the filter/map/collect that opens Pawn, Knight and King moves
same_color_piece_positions(b, color) ==
    {b[i].position : i \in {j \in DOMAIN b : b[j].color = color}}

opposite_color_piece_positions(b, color) ==
    {b[i].position : i \in {j \in DOMAIN b : b[j].color # color}}

all_piece_positions(b, color) ==
    same_color_piece_positions(b, color) \cup opposite_color_piece_positions(b, color)

\* matches!((color, to_xy), (White, OnBoard(_, 1)) | (Black, OnBoard(_, 6)))
in_home_row(color, pos) ==
    LET c == to_xy(pos)
    IN  /\ c[1] = "XY::OnBoard"
        /\ \/ color = "White" /\ c[3] = 1
           \/ color = "Black" /\ c[3] = 6

\* faulty variant: the forward step is taken onto any square, occupied or not
pawn_single_Unconditional(fwd1, allp) ==
    {fwd1}

\* Pawn::moves, the single forward step
pawn_single(fwd1, allp) ==
    IF fwd1 \notin allp THEN {fwd1} ELSE {}

\* faulty variant: the diagonals are taken whether or not an opposing piece is there
pawn_takes_Unconditional(diagonals, opposite) ==
    diagonals

\* Pawn::moves, the loop over the two forward diagonals
pawn_takes(diagonals, opposite) ==
    {p \in diagonals : p \in opposite}

\* faulty variant: the double step does not look at the single-step square
pawn_double_IgnoresSingle(home, fwd1, fwd2, allp) ==
    IF home /\ fwd2 \notin allp THEN {fwd2} ELSE {}

\* Pawn::moves, the double step from the home row
pawn_double(home, fwd1, fwd2, allp) ==
    IF home /\ fwd2 \notin allp /\ fwd1 \notin allp THEN {fwd2} ELSE {}

\* Pawn::moves
PawnMoves(color, pos, b) ==
    LET same == same_color_piece_positions(b, color)
        opposite == opposite_color_piece_positions(b, color)
        allp == all_piece_positions(b, color)
        home == in_home_row(color, pos)
        all ==
            IF color = "Black"
            THEN pawn_single(down(pos), allp)
                 \cup pawn_takes({down_left(pos), down_right(pos)}, opposite)
                 \cup pawn_double(home, down(pos), down(down(pos)), allp)
            ELSE pawn_single(up(pos), allp)
                 \cup pawn_takes({up_left(pos), up_right(pos)}, opposite)
                 \cup pawn_double(home, up(pos), up(up(pos)), allp)
    IN  {p \in all : p \notin same}

\* the eight Position::compose closures of Knight::moves, in source order
KnightJumps ==
    << <<"Up", "Up", "Right">>,      <<"Up", "Up", "Left">>,
       <<"Right", "Right", "Up">>,   <<"Right", "Right", "Down">>,
       <<"Down", "Down", "Right">>,  <<"Down", "Down", "Left">>,
       <<"Left", "Left", "Down">>,   <<"Left", "Left", "Up">> >>

\* faulty variant of Knight::moves: every occupied square is excluded, no capture
KnightMoves_NoCapture(color, pos, b) ==
    LET allp == all_piece_positions(b, color)
        candidates == {compose(KnightJumps[i], pos) : i \in DOMAIN KnightJumps}
    IN  {p \in candidates : is_on_board(p) /\ p \notin allp}

\* Knight::moves
KnightMoves(color, pos, b) ==
    LET same == same_color_piece_positions(b, color)
        candidates == {compose(KnightJumps[i], pos) : i \in DOMAIN KnightJumps}
    IN  {p \in candidates : is_on_board(p) /\ p \notin same}

\* faulty variant of the collect: the first piece listed on a Position is kept
pieces_map_FirstWins(b) ==
    [p \in {b[i].position : i \in DOMAIN b} |->
        b[CHOOSE i \in DOMAIN b :
            /\ b[i].position = p
            /\ \A j \in DOMAIN b : b[j].position = p => i <= j]]

\* the collect into HashMap<Position, &Box<dyn Piece>>: a later piece of the
\* list replaces an earlier one on the same Position
pieces_map(b) ==
    [p \in {b[i].position : i \in DOMAIN b} |->
        b[CHOOSE i \in DOMAIN b :
            /\ b[i].position = p
            /\ \A j \in DOMAIN b : b[j].position = p => j <= i]]

\* faulty variant of the inner loop: no break after a capture
RECURSIVE ray_moves_NoBreak(_, _, _, _, _)
ray_moves_NoBreak(state, d, color, pmap, acc) ==
    LET nxt == stream_next(state, d)
    IN  IF nxt.item = <<>>
        THEN acc
        ELSE LET p == nxt.item[1]
             IN  IF ~is_on_board(p)
                 THEN acc
                 ELSE IF p \in DOMAIN pmap /\ pmap[p].color = color
                      THEN acc
                      ELSE ray_moves_NoBreak(nxt.position_state, d, color, pmap,
                                             acc \cup {p})

\* the inner for loop of Bishop, Rook and Queen moves over one stream
RECURSIVE ray_moves(_, _, _, _, _)
ray_moves(state, d, color, pmap, acc) ==
    LET nxt == stream_next(state, d)
    IN  IF nxt.item = <<>>
        THEN acc
        ELSE LET p == nxt.item[1]
             IN  IF ~is_on_board(p)
                 THEN acc
                 ELSE IF p \in DOMAIN pmap
                      THEN IF pmap[p].color = color THEN acc ELSE acc \cup {p}
                      ELSE ray_moves(nxt.position_state, d, color, pmap, acc \cup {p})

\* the outer for loop over the move directions
RECURSIVE sliding_moves(_, _, _, _, _)
sliding_moves(ds, color, pos, pmap, acc) ==
    IF ds = <<>>
    THEN acc
    ELSE sliding_moves(Tail(ds), color, pos, pmap,
                       ray_moves(pos, Head(ds), color, pmap, acc))

BishopDirections == <<"UpLeft", "UpRight", "DownRight", "DownLeft">>
RookDirections == <<"Up", "Right", "Down", "Left">>

\* faulty variant of the Queen's direction list: DownRight listed twice, DownLeft never
QueenDirections_RepeatsDownRight ==
    <<"Up", "Right", "Down", "Left", "UpLeft", "UpRight", "DownRight", "DownRight">>

QueenDirections == <<"Up", "Right", "Down", "Left",
                     "UpLeft", "UpRight", "DownRight", "DownLeft">>

\* Bishop::moves
BishopMoves(color, pos, b) ==
    sliding_moves(BishopDirections, color, pos, pieces_map(b), {})

\* Rook::moves
RookMoves(color, pos, b) ==
    sliding_moves(RookDirections, color, pos, pieces_map(b), {})

\* Queen::moves
QueenMoves(color, pos, b) ==
    sliding_moves(QueenDirections, color, pos, pieces_map(b), {})

\* faulty variant of King::moves: the king's own Position is among the candidates
KingMoves_IncludesOwnSquare(color, pos, b) ==
    LET same == same_color_piece_positions(b, color)
        candidates == {pos, up(pos), up_right(pos), right(pos), down_right(pos),
                       down(pos), down_left(pos), left(pos), up_left(pos)}
    IN  {p \in candidates : is_on_board(p) /\ p \notin same}

\* faulty variant of King::moves: the neighbours are not filtered to the board
KingMoves_NoBoardFilter(color, pos, b) ==
    LET same == same_color_piece_positions(b, color)
        candidates == {up(pos), up_right(pos), right(pos), down_right(pos),
                       down(pos), down_left(pos), left(pos), up_left(pos)}
    IN  {p \in candidates : p \notin same}

\* King::moves
KingMoves(color, pos, b) ==
    LET same == same_color_piece_positions(b, color)
        candidates == {up(pos), up_right(pos), right(pos), down_right(pos),
                       down(pos), down_left(pos), left(pos), up_left(pos)}
    IN  {p \in candidates : is_on_board(p) /\ p \notin same}

\* dyn Piece::moves
Moves(pc, b) ==
    CASE pc.kind = "Pawn" -> PawnMoves(pc.color, pc.position, b)
      [] pc.kind = "Knight" -> KnightMoves(pc.color, pc.position, b)
      [] pc.kind = "Bishop" -> BishopMoves(pc.color, pc.position, b)
      [] pc.kind = "Rook" -> RookMoves(pc.color, pc.position, b)
      [] pc.kind = "Queen" -> QueenMoves(pc.color, pc.position, b)
      [] pc.kind = "King" -> KingMoves(pc.color, pc.position, b)


(***************************************************************************)
(* Inputs the model draws from.                                            *)
(***************************************************************************)
\* Position::new is tried on these coordinates
U8Inputs == (0..MaxCoord) \cup {U8Max}

\* the kind of the pieces handed to Board::new (moves() reads only their
\* colour and square)
PlacedKinds == {"Pawn"}

Placed(ps) == {Piece(k, c, p) : k \in PlacedKinds, c \in Color, p \in ps}

\* squares of the pieces handed to Board::new when a Pawn, Knight or King is
\* asked: a file through both colours' single- and double-step rows, and the
\* off-board sentinel
StepPlacedPositions == {new(3, 2), new(3, 3), new(3, 4), new(3, 5), OffBoard}

\* ... when a Bishop, Rook or Queen is asked: pairs sharing a file, a rank
\* and a diagonal
SlidePlacedPositions == {new(3, 3), new(3, 5), new(5, 5)}

\* ... when the list may hold several pieces on one square: two squares of a file
SharedPlacedPositions == {new(3, 3), new(3, 4)}

\* ... when any kind is asked
PlacedPositions == {new(3, 3), new(3, 4), OffBoard}

NoPiece == Piece("None", "None", OffBoard)
NoDirection == "None"
NoRay == [made |-> FALSE, position_state |-> OffBoard, yielded |-> <<>>, exhausted |-> FALSE]
NoCall == [piece |-> NoPiece, moves |-> {}, board |-> <<>>]

Init ==
    /\ position = OffBoard
    /\ last = <<"none">>
    /\ xy = <<"none">>
    /\ overflow = FALSE
    /\ start = OffBoard
    /\ direction = NoDirection
    /\ position_state = OffBoard
    /\ yielded = <<>>
    /\ exhausted = FALSE
    /\ other = NoRay
    /\ board = empty
    /\ piece = NoPiece
    /\ moves = {}
    /\ first = NoCall
    /\ calls = 0

(***************************************************************************)
(* PosSpec: Positions are made by Position::new, decoded and stepped.      *)
(***************************************************************************)
\* Position::new(x, y)
New(x, y) ==
    /\ position' = new(x, y)
    /\ last' = <<"new", x, y>>
    /\ xy' = <<"none">>
    /\ overflow' = (overflow \/ new_overflows(x, y))
    /\ UNCHANGED <<rayVars, boardVars>>

\* position.to_xy()
ToXY ==
    /\ last # <<"none">>
    /\ xy' = to_xy(position)
    /\ UNCHANGED <<position, last, overflow, rayVars, boardVars>>

\* position.up() .. position.down_left()
Step(d) ==
    /\ last # <<"none">>
    /\ position' = step(position, d)
    /\ last' = <<d, position>>
    /\ xy' = <<"none">>
    /\ overflow' = (overflow \/ step_overflows(position, d))
    /\ UNCHANGED <<rayVars, boardVars>>

PosNext ==
    \/ \E x \in U8Inputs, y \in U8Inputs : New(x, y)
    \/ ToXY
    \/ \E d \in MoveDirection : Step(d)

PosSpec == Init /\ [][PosNext]_vars

(***************************************************************************)
(* RaySpec: one iterator made by Position::stream is pulled until None.    *)
(***************************************************************************)
\* self.stream(direction)
Stream(s, d) ==
    /\ direction = NoDirection
    /\ start' = s
    /\ direction' = d
    /\ position_state' = s
    /\ UNCHANGED <<yielded, exhausted, other, posVars, boardVars>>

\* Iterator::next on the stream
StreamNext ==
    /\ direction # NoDirection
    /\ ~exhausted
    /\ LET nxt == stream_next(position_state, direction)
       IN  /\ position_state' = nxt.position_state
           /\ IF nxt.item = <<>>
              THEN exhausted' = TRUE /\ UNCHANGED yielded
              ELSE yielded' = Append(yielded, nxt.item[1]) /\ UNCHANGED exhausted
    /\ UNCHANGED <<start, direction, other, posVars, boardVars>>

RayNext ==
    \/ \E s \in Positions, d \in MoveDirection : Stream(s, d)
    \/ StreamNext

RaySpec == Init /\ [][RayNext]_vars

(***************************************************************************)
(* TwoRaySpec: stream is called a second time on the same Position (a      *)
(* Copy value) with the same direction, at any point of the first          *)
(* iterator's life, and the two iterators are pulled in any interleaving.  *)
(***************************************************************************)
\* a second self.stream(direction): the closure gets its own copy of self
StreamAgain ==
    /\ direction # NoDirection
    /\ ~other.made
    /\ other' = [made |-> TRUE, position_state |-> start,
                 yielded |-> <<>>, exhausted |-> FALSE]
    /\ UNCHANGED <<start, direction, position_state, yielded, exhausted,
                   posVars, boardVars>>

\* faulty variant of OtherNext: the second iterator advances the first one's cursor
OtherNext_SharedCursor ==
    /\ other.made
    /\ ~other.exhausted
    /\ LET nxt == stream_next(position_state, direction)
       IN  /\ position_state' = nxt.position_state
           /\ other' = IF nxt.item = <<>>
                       THEN [other EXCEPT !.exhausted = TRUE]
                       ELSE [other EXCEPT !.yielded = Append(@, nxt.item[1])]
    /\ UNCHANGED <<start, direction, yielded, exhausted, posVars, boardVars>>

\* Iterator::next on the second stream: it moves its own captured cursor
OtherNext ==
    /\ other.made
    /\ ~other.exhausted
    /\ LET nxt == stream_next(other.position_state, direction)
       IN  other' = IF nxt.item = <<>>
                    THEN [other EXCEPT !.position_state = nxt.position_state,
                                       !.exhausted = TRUE]
                    ELSE [other EXCEPT !.position_state = nxt.position_state,
                                       !.yielded = Append(@, nxt.item[1])]
    /\ UNCHANGED <<start, direction, position_state, yielded, exhausted,
                   posVars, boardVars>>

TwoRayNext ==
    \/ \E s \in Positions, d \in MoveDirection : Stream(s, d)
    \/ StreamNext
    \/ StreamAgain
    \/ OtherNext

TwoRaySpec == Init /\ [][TwoRayNext]_vars

(***************************************************************************)
(* Spec and its per-kind restrictions: a piece list is handed to Board::new *)
(* and moves() is asked of one piece.                                      *)
(***************************************************************************)
\* Board::new(pieces), one more piece in the list
Place(pc) ==
    /\ Len(board) < MaxPieces
    /\ piece = NoPiece
    /\ board' = Append(board, pc)
    /\ UNCHANGED <<piece, moves, first, calls, posVars, rayVars>>

\* piece.moves(&board)
Query(kind, color, pos) ==
    /\ piece = NoPiece
    /\ piece' = Piece(kind, color, pos)
    /\ moves' = Moves(piece', board)
    /\ UNCHANGED <<board, first, calls, posVars, rayVars>>

PawnQuery(color, pos) == Query("Pawn", color, pos)
KnightQuery(color, pos) == Query("Knight", color, pos)
BishopQuery(color, pos) == Query("Bishop", color, pos)
RookQuery(color, pos) == Query("Rook", color, pos)
QueenQuery(color, pos) == Query("Queen", color, pos)
KingQuery(color, pos) == Query("King", color, pos)

Next ==
    \/ \E pc \in Placed(PlacedPositions) : Place(pc)
    \/ \E color \in Color, pos \in Positions : PawnQuery(color, pos)
    \/ \E color \in Color, pos \in Positions : KnightQuery(color, pos)
    \/ \E color \in Color, pos \in Positions : BishopQuery(color, pos)
    \/ \E color \in Color, pos \in Positions : RookQuery(color, pos)
    \/ \E color \in Color, pos \in Positions : QueenQuery(color, pos)
    \/ \E color \in Color, pos \in Positions : KingQuery(color, pos)

Spec == Init /\ [][Next]_vars

PawnNext ==
    \/ \E pc \in Placed(StepPlacedPositions) : Place(pc)
    \/ \E color \in Color, pos \in Positions : PawnQuery(color, pos)

PawnSpec == Init /\ [][PawnNext]_vars

KnightNext ==
    \/ \E pc \in Placed(StepPlacedPositions) : Place(pc)
    \/ \E color \in Color, pos \in Positions : KnightQuery(color, pos)

KnightSpec == Init /\ [][KnightNext]_vars

KingNext ==
    \/ \E pc \in Placed(StepPlacedPositions) : Place(pc)
    \/ \E color \in Color, pos \in Positions : KingQuery(color, pos)

KingSpec == Init /\ [][KingNext]_vars

SlideNext ==
    \/ \E pc \in Placed(SlidePlacedPositions) : Place(pc)
    \/ \E color \in Color, pos \in Positions : BishopQuery(color, pos)
    \/ \E color \in Color, pos \in Positions : RookQuery(color, pos)
    \/ \E color \in Color, pos \in Positions : QueenQuery(color, pos)

SlideSpec == Init /\ [][SlideNext]_vars

\* lists with pieces of either colour on the same square, any kind asked
SharedNext ==
    \/ \E pc \in Placed(SharedPlacedPositions) : Place(pc)
    \/ \E color \in Color, pos \in Positions : PawnQuery(color, pos)
    \/ \E color \in Color, pos \in Positions : KnightQuery(color, pos)
    \/ \E color \in Color, pos \in Positions : BishopQuery(color, pos)
    \/ \E color \in Color, pos \in Positions : RookQuery(color, pos)
    \/ \E color \in Color, pos \in Positions : QueenQuery(color, pos)
    \/ \E color \in Color, pos \in Positions : KingQuery(color, pos)

SharedSpec == Init /\ [][SharedNext]_vars

(***************************************************************************)
(* FrameSpec: moves() is asked again and again of pieces on one board.     *)
(***************************************************************************)
\* squares of the pieces handed to Board::new, and of the pieces asked
FramePlacedPositions == {new(3, 3)}
FrameAskedPositions == {new(3, 2), new(4, 4)}

\* faulty variant: the call puts the asked piece on the board
Call_PlacesPiece(kind, color, pos) ==
    /\ calls < MaxCalls
    /\ piece' = Piece(kind, color, pos)
    /\ moves' = Moves(piece', board)
    /\ first' = IF first = NoCall
                THEN [piece |-> piece', moves |-> moves', board |-> board]
                ELSE first
    /\ calls' = calls + 1
    /\ board' = Append(board, piece')
    /\ UNCHANGED <<posVars, rayVars>>

\* piece.moves(&board), one call of a sequence of calls
Call(kind, color, pos) ==
    /\ calls < MaxCalls
    /\ piece' = Piece(kind, color, pos)
    /\ moves' = Moves(piece', board)
    /\ first' = IF first = NoCall
                THEN [piece |-> piece', moves |-> moves', board |-> board]
                ELSE first
    /\ calls' = calls + 1
    /\ UNCHANGED <<board, posVars, rayVars>>

FrameNext ==
    \/ \E pc \in Placed(FramePlacedPositions) : Place(pc)
    \/ \E kind \in Kind, color \in Color, pos \in FrameAskedPositions :
           Call(kind, color, pos)

FrameSpec == Init /\ [][FrameNext]_vars

(***************************************************************************)
(* DefaultSpec: Board::default() is built, the two HashMaps iterating in   *)
(* either order, and moves() is asked of one of its pieces.                *)
(***************************************************************************)
\* Board::default()
Default(pawn_order, rest_order) ==
    /\ board = empty
    /\ piece = NoPiece
    /\ board' = Board_default(pawn_order, rest_order)
    /\ UNCHANGED <<piece, moves, first, calls, posVars, rayVars>>

\* board.pieces()[i].moves(&board)
QueryListed(i) ==
    /\ board # empty
    /\ Query(board[i].kind, board[i].color, board[i].position)

DefaultNext ==
    \/ \E pawn_order \in IterationOrders(PawnEntries),
          rest_order \in IterationOrders(RestEntries) :
            Default(pawn_order, rest_order)
    \/ \E i \in DOMAIN board : QueryListed(i)

DefaultSpec == Init /\ [][DefaultNext]_vars


(***************************************************************************)
(* Vocabulary of the properties: squares by their coordinates.             *)
(***************************************************************************)
Coord == 0..7

\* the square of column x and row y, off the board when either leaves 0..7
At(x, y) == IF x \in Coord /\ y \in Coord THEN <<"OnBoard", y * 8 + x>> ELSE <<"OffBoard">>

Col(p) == p[2] % 8
Row(p) == p[2] \div 8

\* the coordinate change of one step in a direction
Dx(d) ==
    CASE d \in {"Right", "UpRight", "DownRight"} -> 1
      [] d \in {"Left", "UpLeft", "DownLeft"} -> -1
      [] OTHER -> 0

Dy(d) ==
    CASE d \in {"Up", "UpRight", "UpLeft"} -> 1
      [] d \in {"Down", "DownRight", "DownLeft"} -> -1
      [] OTHER -> 0

\* the last operation was a step in direction d from a square of the board
SteppedFromSquare(d) == last[1] = d /\ last[2] \in Squares

(***************************************************************************)
(* C3: Position::new(x, y).to_xy() is OnBoard(x, y) for x, y in 0..7, so   *)
(* distinct coordinate pairs give distinct Positions; for x > 7 or y > 7   *)
(* Position::new(x, y) is the off-board sentinel and to_xy() is OffBoard.  *)
(***************************************************************************)
C3_RoundTrip ==
    last[1] = "new" =>
        LET x == last[2]
            y == last[3]
        IN  /\ (x <= 7 /\ y <= 7) =>
                /\ position \in Squares
                /\ \A x2 \in Coord, y2 \in Coord :
                       new(x2, y2) = position => (x2 = x /\ y2 = y)
                /\ xy # <<"none">> => xy = <<"XY::OnBoard", x, y>>
            /\ (x > 7 \/ y > 7) =>
                /\ position = <<"OffBoard">>
                /\ xy # <<"none">> => xy = <<"XY::OffBoard">>

C3_Witness ==
    \/ last = <<"new", 7, 6>> /\ xy = <<"XY::OnBoard", 7, 6>>
    \/ last = <<"new", 8, 0>> /\ xy = <<"XY::OffBoard">>

(***************************************************************************)
(* C4: from an on-board square (x, y), up() is (x, y+1) if y < 7, down()   *)
(* is (x, y-1) if y > 0, left() is (x-1, y) if x > 0, right() is (x+1, y)  *)
(* if x < 7, and each is off-board otherwise: no horizontal step wraps     *)
(* into the adjacent row.                                                  *)
(***************************************************************************)
C4_OrthogonalSteps ==
    \A d \in {"Up", "Down", "Left", "Right"} :
        SteppedFromSquare(d) =>
            position = At(Col(last[2]) + Dx(d), Row(last[2]) + Dy(d))

C4_Witness ==
    /\ last = <<"Right", At(7, 2)>>
    /\ position = <<"OffBoard">>

(***************************************************************************)
(* C5: the off-board sentinel is a fixed point of all eight steps, so any  *)
(* finite composition of steps from it yields it.                          *)
(***************************************************************************)
C5_AbsorbingSentinel ==
    (last[1] \in MoveDirection /\ last[2] = <<"OffBoard">>) =>
        position = <<"OffBoard">>

C5_Witness ==
    /\ last = <<"DownLeft", <<"OffBoard">> >>
    /\ position = <<"OffBoard">>

(***************************************************************************)
(* C6: stream(s, d) from an on-board s = (x, y) yields, in order, exactly  *)
(* the squares (x + k*dx, y + k*dy), k = 1..n, that are on the board       *)
(* before the first that is not: never s, never an off-board square, at    *)
(* most 7 squares.  From an off-board start it yields nothing.             *)
(***************************************************************************)
C6_StreamYields ==
    direction # NoDirection =>
        /\ start \in Squares =>
            /\ \A k \in 1..Len(yielded) :
                   /\ yielded[k] = At(Col(start) + k * Dx(direction),
                                      Row(start) + k * Dy(direction))
                   /\ yielded[k] \in Squares
                   /\ yielded[k] # start
            /\ exhausted =>
                   At(Col(start) + (Len(yielded) + 1) * Dx(direction),
                      Row(start) + (Len(yielded) + 1) * Dy(direction)) = <<"OffBoard">>
        /\ start \notin Squares => yielded = <<>>
        /\ Len(yielded) <= 7

C6_Witness ==
    /\ start = At(0, 0)
    /\ direction = "UpRight"
    /\ exhausted
    /\ Len(yielded) = 7
    /\ yielded[7] = At(7, 7)


(***************************************************************************)
(* Vocabulary of the properties: occupancy of the board's squares.         *)
(***************************************************************************)
Occupied(q) == \E i \in DOMAIN board : board[i].position = q

OccupiedBy(q, color) ==
    \E i \in DOMAIN board : board[i].position = q /\ board[i].color = color

Opposite(color) == IF color = "White" THEN "Black" ELSE "White"

\* no two pieces of the list stand on the same square of the board
OnePiecePerSquare ==
    \A i \in DOMAIN board, j \in DOMAIN board :
        (i # j /\ board[i].position \in Squares) =>
            board[i].position # board[j].position

\* moves() was asked of a piece of this kind standing on a square of the board
Asked(kinds) == piece.kind \in kinds /\ piece.position \in Squares

\* the row change of a pawn's forward step
Forward(color) == IF color = "White" THEN 1 ELSE -1

HomeRow(color) == IF color = "White" THEN 1 ELSE 6

(***************************************************************************)
(* C1: the set returned by Pawn.moves for a pawn on an on-board square     *)
(* (the last rank in its direction of travel included) contains no         *)
(* off-board square.                                                       *)
(***************************************************************************)
C1_PawnMovesOnBoard ==
    Asked({"Pawn"}) => \A p \in moves : p \in Squares

(***************************************************************************)
(* C2: for a Bishop, Rook or Queen on an on-board square and a board with  *)
(* at most one piece per square, the destinations on each scanned ray are  *)
(* exactly the empty squares before the first occupied square, plus that   *)
(* square iff its occupant has the opposite colour; nothing beyond it, and *)
(* nothing off the scanned rays.                                           *)
(***************************************************************************)
Scanned(kind) ==
    CASE kind = "Rook" -> {"Up", "Down", "Left", "Right"}
      [] kind = "Bishop" -> {"UpLeft", "UpRight", "DownLeft", "DownRight"}
      [] kind = "Queen" -> MoveDirection

\* the k-th square from the asked piece in direction d
RaySquare(d, k) ==
    At(Col(piece.position) + k * Dx(d), Row(piece.position) + k * Dy(d))

C2_SlidingStopRule ==
    (Asked({"Bishop", "Rook", "Queen"}) /\ OnePiecePerSquare) =>
        /\ \A d \in Scanned(piece.kind), k \in 1..7 :
               RaySquare(d, k) \in Squares =>
                   (RaySquare(d, k) \in moves <=>
                       /\ \A j \in 1..(k - 1) : ~Occupied(RaySquare(d, j))
                       /\ \/ ~Occupied(RaySquare(d, k))
                          \/ OccupiedBy(RaySquare(d, k), Opposite(piece.color)))
        /\ \A q \in moves :
               \E d \in Scanned(piece.kind), k \in 1..7 : q = RaySquare(d, k)

C2_Witness ==
    /\ piece = Piece("Rook", "White", At(3, 0))
    /\ board = <<Piece("Pawn", "Black", At(3, 3)), Piece("Pawn", "Black", At(3, 5))>>
    /\ At(3, 2) \in moves
    /\ At(3, 3) \in moves
    /\ At(3, 4) \notin moves
    /\ At(3, 5) \notin moves

(***************************************************************************)
(* C7: Knight.moves for a knight of colour c on (x, y) is exactly the set  *)
(* of squares (x+dx, y+dy), (dx, dy) in {(+-1, +-2), (+-2, +-1)}, that are *)
(* on the board and not occupied by a piece of colour c; pieces on the     *)
(* L-path and opposite-colour pieces remove nothing, so a knight at (4,4)  *)
(* on an empty board has exactly 8 destinations.                           *)
(***************************************************************************)
KnightOffsets ==
    {<<1, 2>>, <<1, -2>>, <<-1, 2>>, <<-1, -2>>,
     <<2, 1>>, <<2, -1>>, <<-2, 1>>, <<-2, -1>>}

C7_KnightMoves ==
    Asked({"Knight"}) =>
        /\ moves =
             {q \in {At(Col(piece.position) + o[1], Row(piece.position) + o[2]) :
                        o \in KnightOffsets} :
                 q \in Squares /\ ~OccupiedBy(q, piece.color)}
        /\ (piece.position = At(4, 4) /\ board = <<>>) => Cardinality(moves) = 8

C7_Witness ==
    /\ piece = Piece("Knight", "Black", At(4, 4))
    /\ board = <<Piece("Pawn", "White", At(3, 4)), Piece("Pawn", "Black", At(3, 2))>>
    /\ Cardinality(moves) = 7
    /\ At(2, 3) \in moves
    /\ At(3, 2) \notin moves

(***************************************************************************)
(* C8: King.moves for a king of colour c is exactly the set of its (up to  *)
(* 8) orthogonal and diagonal neighbours that are on the board and not     *)
(* occupied by a piece of colour c; a neighbour occupied by the opposite   *)
(* colour is included.                                                     *)
(***************************************************************************)
KingOffsets ==
    {<<dx, dy>> : dx \in {-1, 0, 1}, dy \in {-1, 0, 1}} \ {<<0, 0>>}

C8_KingMoves ==
    Asked({"King"}) =>
        moves =
            {q \in {At(Col(piece.position) + o[1], Row(piece.position) + o[2]) :
                       o \in KingOffsets} :
                q \in Squares /\ ~OccupiedBy(q, piece.color)}

C8_Witness ==
    /\ piece = Piece("King", "Black", At(4, 4))
    /\ board = <<Piece("Pawn", "Black", At(3, 3)), Piece("Pawn", "White", At(3, 5))>>
    /\ Cardinality(moves) = 7
    /\ At(3, 5) \in moves
    /\ At(3, 3) \notin moves

(***************************************************************************)
(* C9: the square two steps forward of a pawn is in Pawn.moves iff the     *)
(* pawn is on its colour's home row (row 1 for White, row 6 for Black) and *)
(* neither the single-step nor the double-step square is occupied by a     *)
(* piece of either colour; off its home row a pawn gets no double step.    *)
(***************************************************************************)
C9_PawnDoubleStep ==
    Asked({"Pawn"}) =>
        LET x == Col(piece.position)
            y == Row(piece.position)
            f == Forward(piece.color)
        IN  At(x, y + 2 * f) \in Squares =>
                (At(x, y + 2 * f) \in moves <=>
                    /\ y = HomeRow(piece.color)
                    /\ ~Occupied(At(x, y + f))
                    /\ ~Occupied(At(x, y + 2 * f)))

C9_Witness ==
    /\ piece = Piece("Pawn", "White", At(3, 1))
    /\ board = <<Piece("Pawn", "Black", At(3, 4))>>
    /\ moves = {At(3, 2), At(3, 3)}

(***************************************************************************)
(* C10: on a board with at most one piece per square, each of a pawn's two *)
(* forward-diagonal squares is in Pawn.moves iff it is occupied by an      *)
(* opposite-colour piece: never an empty or same-colour-occupied square.   *)
(***************************************************************************)
C10_PawnTakes ==
    (Asked({"Pawn"}) /\ OnePiecePerSquare) =>
        \A dx \in {-1, 1} :
            LET q == At(Col(piece.position) + dx,
                        Row(piece.position) + Forward(piece.color))
            IN  q \in Squares =>
                    (q \in moves <=> OccupiedBy(q, Opposite(piece.color)))

C10_Witness ==
    /\ piece = Piece("Pawn", "Black", At(4, 4))
    /\ board = <<Piece("Pawn", "White", At(3, 3)), Piece("Pawn", "Black", At(3, 5))>>
    /\ moves = {At(4, 3), At(3, 3)}

(***************************************************************************)
(* C11: the single forward square of a pawn (one row down for Black, one   *)
(* row up for White) is in Pawn.moves iff no piece of either colour stands *)
(* on it; an opposing piece directly ahead blocks and is not captured.     *)
(***************************************************************************)
C11_PawnSingleStep ==
    Asked({"Pawn"}) =>
        LET q == At(Col(piece.position),
                    Row(piece.position) + Forward(piece.color))
        IN  q \in Squares => (q \in moves <=> ~Occupied(q))

C11_Witness ==
    /\ piece = Piece("Pawn", "Black", At(3, 6))
    /\ board = <<Piece("Pawn", "White", At(3, 5))>>
    /\ moves = {}

(***************************************************************************)
(* C12: on a board with at most one piece per square, the Queen's move set *)
(* is the union of the move sets of a Rook and a Bishop of the same colour *)
(* on the same square of the same board; a Rook's destinations all share   *)
(* its row or its column, a Bishop's all lie on its diagonals.             *)
(***************************************************************************)
SameLine(p, q) == Col(p) = Col(q) \/ Row(p) = Row(q)

SameDiagonal(p, q) ==
    \/ Col(p) - Col(q) = Row(p) - Row(q)
    \/ Col(p) - Col(q) = Row(q) - Row(p)

C12_QueenIsRookAndBishop ==
    (Asked({"Bishop", "Rook", "Queen"}) /\ OnePiecePerSquare) =>
        /\ piece.kind = "Queen" =>
               moves = RookMoves(piece.color, piece.position, board)
                       \cup BishopMoves(piece.color, piece.position, board)
        /\ piece.kind = "Rook" =>
               \A q \in moves :
                   q \in Squares /\ q # piece.position /\ SameLine(piece.position, q)
        /\ piece.kind = "Bishop" =>
               \A q \in moves :
                   q \in Squares /\ q # piece.position /\ SameDiagonal(piece.position, q)

C12_Witness ==
    /\ piece = Piece("Queen", "White", At(4, 4))
    /\ board = <<Piece("Pawn", "Black", At(3, 3)), Piece("Pawn", "White", At(5, 5))>>
    /\ At(3, 3) \in moves
    /\ At(2, 2) \notin moves
    /\ At(5, 5) \notin moves
    /\ At(4, 0) \in moves
    /\ At(1, 7) \in moves
    /\ Cardinality(moves) = 21

(***************************************************************************)
(* C13: moves() of a piece of any of the six kinds whose square is the     *)
(* off-board sentinel returns the empty set, on any board.                 *)
(***************************************************************************)
C13_OffBoardPieceHasNoMoves ==
    (piece.kind \in Kind /\ piece.position = <<"OffBoard">>) => moves = {}

Reorderings(n) ==
    {f \in [1..n -> 1..n] : \A i \in 1..n, j \in 1..n : i # j => f[i] # f[j]}

Permuted(b, f) == [i \in 1..Len(b) |-> b[f[i]]]

C15_OrderIrrelevant ==
    (piece.kind \in Kind /\ OnePiecePerSquare) =>
        \A f \in Reorderings(Len(board)) :
            Moves(piece, Permuted(board, f)) = moves

C15_Witness ==
    /\ piece = Piece("King", "Black", At(4, 4))
    /\ board = <<Piece("Pawn", "Black", At(3, 3)), Piece("Pawn", "White", At(3, 4))>>
    /\ At(3, 3) \notin moves
    /\ At(3, 4) \in moves
    /\ Moves(piece, <<board[2], board[1]>>) = moves

(***************************************************************************)
(* C16: for a piece on an on-board square, moves() returns at most 8       *)
(* destinations for a Pawn, Knight or King and at most 28 for a Bishop,    *)
(* Rook or Queen, on every board.                                          *)
(***************************************************************************)
C16_MoveCountBounds ==
    Asked(Kind) =>
        /\ piece.kind \in {"Pawn", "Knight", "King"} => Cardinality(moves) <= 8
        /\ piece.kind \in {"Bishop", "Rook", "Queen"} => Cardinality(moves) <= 28

C16_Witness ==
    /\ piece = Piece("Queen", "White", At(4, 4))
    /\ board = <<>>
    /\ Cardinality(moves) = 27

(***************************************************************************)
(* C17: from an on-board square (x, y), each diagonal step (the vertical   *)
(* step, then the horizontal one) is the diagonal neighbour (x+-1, y+-1)   *)
(* when both coordinates stay in 0..7 and the off-board sentinel           *)
(* otherwise, at corners and when only one component leaves the board; it  *)
(* never lands on an on-board square of another row than y+-1.             *)
(***************************************************************************)
C17_DiagonalSteps ==
    \A d \in {"UpRight", "UpLeft", "DownRight", "DownLeft"} :
        SteppedFromSquare(d) =>
            /\ position = At(Col(last[2]) + Dx(d), Row(last[2]) + Dy(d))
            /\ position \in Squares => Row(position) = Row(last[2]) + Dy(d)

C17_Witness ==
    \/ last = <<"UpLeft", At(0, 3)>> /\ position = <<"OffBoard">>
    \/ last = <<"DownRight", At(7, 0)>> /\ position = <<"OffBoard">>

(***************************************************************************)
(* C18: two rays made from the same (start, direction) and pulled in any   *)
(* interleaving each yield the sequence a ray consumed alone yields: at    *)
(* every moment each has produced a prefix of the squares                  *)
(* (x + k*dx, y + k*dy), k = 1, 2, ..., that lie on the board before the   *)
(* first that does not, and all of them once it has returned None.  So a   *)
(* pull of one ray never changes what the other yields next, nor the start *)
(* Position both were made from.                                           *)
(***************************************************************************)
\* the number of squares of the ray from s in direction d
RayLength(s, d) ==
    IF s \in Squares
    THEN Cardinality({k \in 1..7 :
             \A j \in 1..k : At(Col(s) + j * Dx(d), Row(s) + j * Dy(d)) \in Squares})
    ELSE 0

\* ys, with None returned or not, is what a ray from (start, direction) alone gives
AsConsumedAlone(ys, done) ==
    /\ Len(ys) <= RayLength(start, direction)
    /\ \A k \in 1..Len(ys) :
           ys[k] = At(Col(start) + k * Dx(direction), Row(start) + k * Dy(direction))
    /\ done => Len(ys) = RayLength(start, direction)

C18_IndependentRays ==
    (direction # NoDirection /\ other.made) =>
        /\ AsConsumedAlone(yielded, exhausted)
        /\ AsConsumedAlone(other.yielded, other.exhausted)

C18_Witness ==
    /\ start = At(2, 0)
    /\ direction = "UpRight"
    /\ other.made
    /\ exhausted
    /\ Len(yielded) = 5
    /\ ~other.exhausted
    /\ other.yielded = <<At(3, 1), At(4, 2)>>

(***************************************************************************)
(* C19: Board::default() holds exactly 32 pieces on 32 distinct on-board   *)
(* squares: White pawns on every column of row 1, Black pawns on every     *)
(* column of row 6, and on row 0 (White) and row 7 (Black) rooks on        *)
(* columns 0 and 7, knights on 1 and 6, bishops on 2 and 5, the queen on 3 *)
(* and the king on 4, whatever the order the list comes out in.            *)
(***************************************************************************)
Listed == {board[i] : i \in DOMAIN board}

BackRowKind(x) ==
    CASE x \in {0, 7} -> "Rook"
      [] x \in {1, 6} -> "Knight"
      [] x \in {2, 5} -> "Bishop"
      [] x = 3 -> "Queen"
      [] x = 4 -> "King"

C19_DefaultLayout ==
    board # <<>> =>
        /\ Len(board) = 32
        /\ Cardinality({board[i].position : i \in DOMAIN board}) = 32
        /\ \A i \in DOMAIN board : board[i].position \in Squares
        /\ OnePiecePerSquare
        /\ \A x \in Coord :
               /\ [kind |-> "Pawn", color |-> "White", position |-> At(x, 1)] \in Listed
               /\ [kind |-> "Pawn", color |-> "Black", position |-> At(x, 6)] \in Listed
               /\ [kind |-> BackRowKind(x), color |-> "White", position |-> At(x, 0)] \in Listed
               /\ [kind |-> BackRowKind(x), color |-> "Black", position |-> At(x, 7)] \in Listed

C19_Witness ==
    /\ Len(board) = 32
    /\ board[1].color = "Black"
    /\ board[17].color = "White"
    /\ piece = [kind |-> "Knight", color |-> "White", position |-> At(1, 0)]
    /\ moves = {At(0, 2), At(2, 2)}

(***************************************************************************)
(* C20: after Position::new(x, y), for any u8 x and y, and any sequence of *)
(* steps, the Position is the off-board sentinel or carries an index in    *)
(* 0..63, and no u8 addition, subtraction or multiplication of new or of a *)
(* step has overflowed or underflowed.                                     *)
(***************************************************************************)
C20_NoOverflow ==
    last # <<"none">> =>
        /\ ~overflow
        /\ \/ position = <<"OffBoard">>
           \/ /\ Len(position) = 2
              /\ position[1] = "OnBoard"
              /\ position[2] \in 0..63

C20_Witness ==
    /\ last = <<"UpRight", <<"OnBoard", 55>> >>
    /\ position = <<"OffBoard">>
    /\ ~overflow

(***************************************************************************)
(* C21: when several pieces of the list stand on one square of a Bishop,   *)
(* Rook or Queen ray, only the one listed last counts: the ray stops at    *)
(* the first occupied square, and that square is a destination iff its     *)
(* last-listed piece is of the other colour, even if a piece of the        *)
(* mover's colour is listed on it too.  Pawn, Knight and King never move   *)
(* to a square on which any piece of the mover's colour is listed.         *)
(***************************************************************************)
\* two pieces of the list stand on the square q
SharedSquare(q) ==
    \E i \in DOMAIN board, j \in DOMAIN board :
        i # j /\ board[i].position = q /\ board[j].position = q

\* the colour of the piece listed last on the occupied square q
LastListedColor(q) ==
    LET on == {i \in DOMAIN board : board[i].position = q}
    IN  board[CHOOSE i \in on : \A j \in on : j <= i].color

C21_LastListedDecides ==
    /\ Asked({"Bishop", "Rook", "Queen"}) =>
           \A d \in Scanned(piece.kind), k \in 1..7 :
               RaySquare(d, k) \in Squares =>
                   (RaySquare(d, k) \in moves <=>
                       /\ \A j \in 1..(k - 1) : ~Occupied(RaySquare(d, j))
                       /\ Occupied(RaySquare(d, k)) =>
                              LastListedColor(RaySquare(d, k)) # piece.color)
    /\ Asked({"Pawn", "Knight", "King"}) =>
           \A q \in Squares : OccupiedBy(q, piece.color) => q \notin moves

C21_Witness ==
    /\ piece = [kind |-> "Rook", color |-> "White", position |-> At(3, 2)]
    /\ Len(board) = 2
    /\ board[1] = [kind |-> "Pawn", color |-> "White", position |-> At(3, 4)]
    /\ board[2] = [kind |-> "Pawn", color |-> "Black", position |-> At(3, 4)]
    /\ SharedSquare(At(3, 4))
    /\ At(3, 4) \in moves
    /\ At(3, 5) \notin moves

(***************************************************************************)
(* C22: for a piece of any kind standing on a square of the board, and any *)
(* board, whether or not its list holds that piece or another piece on     *)
(* that square, moves() never contains the piece's own square.             *)
(***************************************************************************)
C22_NeverOwnSquare ==
    Asked(Kind) => piece.position \notin moves

C22_Witness ==
    /\ piece = [kind |-> "Queen", color |-> "White", position |-> At(3, 3)]
    /\ board = <<[kind |-> "Pawn", color |-> "Black", position |-> At(3, 3)]>>
    /\ At(3, 3) \notin moves
    /\ At(3, 4) \in moves

====
